---- MODULE Spec2Model ----
(***************************************************************************)
(* Sink Water Heater firmware (SinkWaterHeater.ino): the alert escalation  *)
(* state machine driven by millis(), and the temperature renderer drawing  *)
(* on the SSD1306 display object.                                          *)
(*                                                                         *)
(* Temperatures are held in hundredths of a degree Celsius (23.47 C is     *)
(* 2347).  The millisecond clock is held as whole seconds plus a           *)
(* millisecond remainder, because the 32-bit counter itself exceeds the    *)
(* integers TLC computes with.                                             *)
(***************************************************************************)
EXTENDS Integers, Sequences, FiniteSets, TLC

VARIABLES pc, prog_state, timeHeatingStarted, tempC, disp, screen, buzzer,
          now, log, pulses, serial

vars == <<pc, prog_state, timeHeatingStarted, tempC, disp, screen, buzzer,
          now, log, pulses, serial>>

(***************************************************************************)
(* Program constants                                                       *)
(***************************************************************************)
INIT == 0
BEEP_1 == 1
BEEP_2 == 2
BEEP_3 == 3
BEEP_INDEF == 4

T_BEEP_1 == 60
T_BEEP_2 == 120
T_BEEP_3 == 180

DISP_ROT == 2
TEMP_FONT_SIZE == 2
SCREEN_WIDTH == 128
SCREEN_HEIGHT == 64
FONT_W == 6
FONT_H == 8
LINE_GAP == 10

\* -127.0, the value the sensor library returns when the sensor is absent
DEVICE_DISCONNECTED == -12700
\* 50 degrees, above which a reading is taken for a sensor glitch
GLITCH_ABOVE == 5000
\* float tempC = 17.0
TEMP_INITIAL == 1700

LOW == 0
HIGH == 1

\* delay(100) of loop(), delay(200) and delay(600) of beepOnce()
LOOP_DELAY_MS == 100
BEEP_ON_MS == 200
BEEP_OFF_MS == 600

\* millis() is an unsigned long of 32 bits: it wraps at 2^32 ms, which is
\* 4294967 s and 296 ms
WRAP_SEC == 4294967
WRAP_MS == 296
HALF_WORD == 65536

(***************************************************************************)
(* Bounds of the model                                                     *)
(***************************************************************************)
\* ordinary clock steps are taken while the whole seconds stay at most MaxSec
MaxSec == 183
\* cycles are run while fewer than MaxPulses pulses have been emitted
MaxPulses == 8

\* the readings the sensor delivers, in hundredths of a degree
Readings == {DEVICE_DISCONNECTED, -2347, 5000, 5001}

\* the time that may pass between two samplings of millis(), in ms
ClockSteps == {500, 1000, 60000}

(***************************************************************************)
(* unsigned long arithmetic: a 32-bit value as two 16-bit halves           *)
(***************************************************************************)
\* a - b modulo 2^32, for 0 <= a, b < 2^31
Sub32(a, b) ==
  IF a >= b
  THEN [hi |-> (a - b) \div HALF_WORD, lo |-> (a - b) % HALF_WORD]
  ELSE [hi |-> (HALF_WORD - 1) - ((b - a - 1) \div HALF_WORD),
        lo |-> (HALF_WORD - 1) - ((b - a - 1) % HALF_WORD)]

\* u > t for a 32-bit u and 0 <= t < 2^16
Gt32(u, t) == u.hi > 0 \/ u.lo > t

\* u = t for a 32-bit u and 0 <= t < 2^16
Eq32(u, t) == u.hi = 0 /\ u.lo = t

(***************************************************************************)
(* The clock                                                               *)
(***************************************************************************)
\* the counter d ms after it read c, wrapping at 2^32 ms
Advance(c, d) ==
  LET total == c.ms + d
      s1 == c.s + total \div 1000
      m1 == total % 1000
  IN  IF s1 > WRAP_SEC \/ (s1 = WRAP_SEC /\ m1 >= WRAP_MS)
      THEN IF m1 >= WRAP_MS
           THEN [s |-> s1 - WRAP_SEC, ms |-> m1 - WRAP_MS]
           ELSE [s |-> s1 - WRAP_SEC - 1, ms |-> m1 + 1000 - WRAP_MS]
      ELSE [s |-> s1, ms |-> m1]

\* the counter half a second before it wraps
WrapEdge == [s |-> WRAP_SEC - 1, ms |-> WRAP_MS + 500]

\* the least time between two samplings of millis(): the delay that ends the
\* earlier cycle, after the pulse if that cycle emitted one
MinCycleMs(beeped) ==
  LOOP_DELAY_MS + (IF beeped THEN BEEP_ON_MS + BEEP_OFF_MS ELSE 0)

\* millis()/1000 - timeHeatingStarted, in unsigned long arithmetic
Elapsed(c, started) == Sub32(c.s, started)

\* the readings of the counter that may follow the reading c: an ordinary step
\* of at least the cycle's least duration, or the long run to half a second
\* before the counter wraps
ClockNext(c, beeped) ==
  {x \in {Advance(c, d) : d \in {e \in ClockSteps : e >= MinCycleMs(beeped)}} :
      x.s <= MaxSec}
  \cup ({WrapEdge} \ {c})

(***************************************************************************)
(* The machine: the globals of the sketch and the hardware they drive.     *)
(* disp is the display object (its retained buffer, cursor, text size and  *)
(* rotation), screen is what the panel presents, log lists the calls of    *)
(* the current cycle of loop() in order.                                   *)
(***************************************************************************)
Machine ==
  [prog_state |-> prog_state, timeHeatingStarted |-> timeHeatingStarted,
   tempC |-> tempC, disp |-> disp, screen |-> screen, buzzer |-> buzzer,
   log |-> log]

Logged(m, what) == [m EXCEPT !.log = Append(@, what)]

\* the number of calls of beepOnce() in a cycle's log
PulsesIn(l) == Cardinality({i \in 1..Len(l) : l[i] = "beepOnce"})

(***************************************************************************)
(* The display object                                                      *)
(***************************************************************************)
DispNew == [buf |-> {}, cx |-> 0, cy |-> 0, size |-> 1, rot |-> 0]

Splash == [k |-> "splash"]

\* disp.begin(): on success the buffer holds the library's splash picture
Begin(m) == [Logged(m, "begin") EXCEPT !.disp.buf = {Splash}]

\* disp.width() and disp.height() under the current rotation
Width(m) == IF m.disp.rot % 2 = 0 THEN SCREEN_WIDTH ELSE SCREEN_HEIGHT
Height(m) == IF m.disp.rot % 2 = 0 THEN SCREEN_HEIGHT ELSE SCREEN_WIDTH

ClearDisplay(m) == [Logged(m, "clearDisplay") EXCEPT !.disp.buf = {}]
SetRotation(m, r) == [Logged(m, "setRotation") EXCEPT !.disp.rot = r]
SetCursor(m, x, y) ==
  [Logged(m, "setCursor") EXCEPT !.disp.cx = x, !.disp.cy = y]
SetTextSize(m, n) == [Logged(m, "setTextSize") EXCEPT !.disp.size = n]
SetTextColor(m) == Logged(m, "setTextColor")

\* disp.print(str): the text goes into the buffer at the cursor, which moves
\* right by one glyph cell per character
PrintText(m, str) ==
  [Logged(m, "print") EXCEPT
     !.disp.buf = @ \cup {[k |-> "text", x |-> m.disp.cx, y |-> m.disp.cy,
                           size |-> m.disp.size, str |-> str]},
     !.disp.cx = @ + FONT_W * m.disp.size * Len(str)]

DrawRect(m, x, y, w, h) ==
  [Logged(m, "drawRect") EXCEPT
     !.disp.buf = @ \cup {[k |-> "rect", x |-> x, y |-> y, w |-> w, h |-> h]}]

\* disp.display(): the buffer is flushed to the panel
Display(m) == [Logged(m, "display") EXCEPT !.screen = m.disp.buf]

(***************************************************************************)
(* OLED display helper functions                                           *)
(***************************************************************************)
\* the buffer not cleared
ResetDisplayWithoutClear(m) ==
  SetTextColor(SetTextSize(SetCursor(SetRotation(m, DISP_ROT), 0, 0), 1))

\* resetDisplay()
ResetDisplay(m) ==
  SetTextColor(SetTextSize(SetCursor(SetRotation(ClearDisplay(m), DISP_ROT),
                                     0, 0), 1))

\* (disp.width() - 6*textSize*strlen(str))/2 is computed in the 16-bit
\* unsigned arithmetic of size_t
DispCenterX(m, str, textSize) ==
  SetCursor(m, ((Width(m) - FONT_W * textSize * Len(str)) % HALF_WORD) \div 2,
            m.disp.cy)

DispCenterY(m, str, textSize) ==
  SetCursor(m, m.disp.cx, (Height(m) - FONT_H * textSize) \div 2)

(***************************************************************************)
(* dtostrf(tempC, 2, 1, str_temp): the reading rounded to one decimal      *)
(***************************************************************************)
Digit == <<"0", "1", "2", "3", "4", "5", "6", "7", "8", "9">>

RECURSIVE NatStr(_)
NatStr(n) ==
  IF n < 10 THEN Digit[n + 1] ELSE NatStr(n \div 10) \o Digit[(n % 10) + 1]

Abs(x) == IF x < 0 THEN -x ELSE x

\* c is in hundredths; the result has one decimal and is never shorter than
\* the minimum width of 2, so no padding is added
Dtostrf(c) ==
  LET tenths == (Abs(c) + 5) \div 10
  IN  (IF c < 0 THEN "-" ELSE "") \o NatStr(tenths \div 10) \o "."
        \o Digit[(tenths % 10) + 1]

\* sprintf(strBuf, "%s C", str_temp)
TempText(c) == Dtostrf(c) \o " C"

IsFault(t) == t = DEVICE_DISCONNECTED

\* the ceiling mistyped
IsGlitchAbove85(t) == t > 8500

\* the ceiling itself taken for a glitch
IsGlitchAtLeast(t) == t >= GLITCH_ABOVE

IsGlitch(t) == t > GLITCH_ABOVE

ShowFault(m) ==
  LET a == SetTextSize(m, 1)
      b == PrintText(DispCenterY(DispCenterX(a, "Error: Temperature", 1),
                                 "Error: Temperature", 1),
                     "Error: Temperature")
      c == DispCenterX(b, "Sensor Disconnected", 1)
      d == SetCursor(c, c.disp.cx, c.disp.cy + LINE_GAP)
  IN  PrintText(d, "Sensor Disconnected")

ShowValue(m) ==
  LET str == TempText(m.tempC)
      a == SetTextSize(SetRotation(m, DISP_ROT), TEMP_FONT_SIZE)
      b == DispCenterY(DispCenterX(a, str, TEMP_FONT_SIZE), str, TEMP_FONT_SIZE)
  IN  PrintText(SetRotation(b, DISP_ROT), str)

\* the flush forgotten
FinishWithoutFlush(m) == DrawRect(m, 0, 0, Width(m), Height(m))

\* the border and the flush that end a rendering
Finish(m) == Display(DrawRect(m, 0, 0, Width(m), Height(m)))

\* the flush reached on every path, the glitch path included
ShowTemperatureFlushingOnGlitch(m) ==
  LET r == ResetDisplay(Logged(m, "showTemperature"))
  IN  IF IsFault(r.tempC) THEN Finish(ShowFault(r))
      ELSE IF IsGlitch(r.tempC) THEN Display(r)
      ELSE Finish(ShowValue(r))

ShowTemperature(m) ==
  LET r == ResetDisplay(Logged(m, "showTemperature"))
  IN  IF IsFault(r.tempC) THEN Finish(ShowFault(r))
      ELSE IF IsGlitch(r.tempC) THEN r
      ELSE Finish(ShowValue(r))

(***************************************************************************)
(* I/O helper functions                                                    *)
(***************************************************************************)
DigitalWrite(m, level) ==
  [Logged(m, IF level = HIGH THEN "buzzer HIGH" ELSE "buzzer LOW")
     EXCEPT !.buzzer = level]

\* the pin left asserted
BeepOnceLeavingHigh(m) == DigitalWrite(Logged(m, "beepOnce"), HIGH)

BeepOnce(m) ==
  DigitalWrite(DigitalWrite(Logged(m, "beepOnce"), HIGH), LOW)

(***************************************************************************)
(* The alert escalation state machine: the switch of loop()                *)
(***************************************************************************)
\* the comparison taken for "at least" instead of "more than"
ExceedsOrEquals(c, started, t) ==
  Gt32(Elapsed(c, started), t) \/ Eq32(Elapsed(c, started), t)

\* (millis()/1000 - timeHeatingStarted) > t
Exceeds(c, started, t) == Gt32(Elapsed(c, started), t)

\* a pulse at power-on
CaseInitBeeping(m, c) ==
  BeepOnce([Logged(m, "millis") EXCEPT !.timeHeatingStarted = c.s,
                                       !.prog_state = BEEP_1])

\* the stage not advanced after the start is recorded
CaseInitNotAdvancing(m, c) ==
  [Logged(m, "millis") EXCEPT !.timeHeatingStarted = c.s]

CaseInit(m, c) ==
  [Logged(m, "millis") EXCEPT !.timeHeatingStarted = c.s,
                              !.prog_state = BEEP_1]

\* the start recorded again at the first pulse
CaseBeep1RestartingTimer(m, c) ==
  IF Exceeds(c, m.timeHeatingStarted, T_BEEP_1)
  THEN BeepOnce([Logged(m, "millis") EXCEPT !.prog_state = BEEP_2,
                                            !.timeHeatingStarted = c.s])
  ELSE Logged(m, "millis")

\* the break left out: the code of case BEEP_2 runs after that of BEEP_1
CaseBeep1FallingThrough(m, c) ==
  LET a == IF Exceeds(c, m.timeHeatingStarted, T_BEEP_1)
           THEN BeepOnce([Logged(m, "millis") EXCEPT !.prog_state = BEEP_2])
           ELSE Logged(m, "millis")
  IN  IF Exceeds(c, a.timeHeatingStarted, T_BEEP_2)
      THEN BeepOnce([Logged(a, "millis") EXCEPT !.prog_state = BEEP_3])
      ELSE Logged(a, "millis")

CaseBeep1(m, c) ==
  IF Exceeds(c, m.timeHeatingStarted, T_BEEP_1)
  THEN BeepOnce([Logged(m, "millis") EXCEPT !.prog_state = BEEP_2])
  ELSE Logged(m, "millis")

\* the wrong stage assigned on leaving BEEP_2
CaseBeep2BackToBeep1(m, c) ==
  IF Exceeds(c, m.timeHeatingStarted, T_BEEP_2)
  THEN BeepOnce([Logged(m, "millis") EXCEPT !.prog_state = BEEP_1])
  ELSE Logged(m, "millis")

CaseBeep2(m, c) ==
  IF Exceeds(c, m.timeHeatingStarted, T_BEEP_2)
  THEN BeepOnce([Logged(m, "millis") EXCEPT !.prog_state = BEEP_3])
  ELSE Logged(m, "millis")

\* the pulse emitted before and after the stage is advanced
CaseBeep3BeepingTwice(m, c) ==
  IF Exceeds(c, m.timeHeatingStarted, T_BEEP_3)
  THEN BeepOnce([BeepOnce(Logged(m, "millis")) EXCEPT !.prog_state = BEEP_INDEF])
  ELSE Logged(m, "millis")

\* the stage not advanced on leaving BEEP_3
CaseBeep3StayingInBeep3(m, c) ==
  IF Exceeds(c, m.timeHeatingStarted, T_BEEP_3)
  THEN BeepOnce([Logged(m, "millis") EXCEPT !.prog_state = BEEP_3])
  ELSE Logged(m, "millis")

CaseBeep3(m, c) ==
  IF Exceeds(c, m.timeHeatingStarted, T_BEEP_3)
  THEN BeepOnce([Logged(m, "millis") EXCEPT !.prog_state = BEEP_INDEF])
  ELSE Logged(m, "millis")

\* the escalation started over once the continuous alert has sounded
CaseBeepIndefRestarting(m, c) == [BeepOnce(m) EXCEPT !.prog_state = INIT]

\* the continuous alert checking the elapsed time again
CaseBeepIndefTimed(m, c) ==
  IF Exceeds(c, m.timeHeatingStarted, T_BEEP_3) THEN BeepOnce(m) ELSE m

CaseBeepIndef(m, c) == BeepOnce(m)

\* switch(prog_state): only the case of the stage held on entry is run
SwitchProgState(m, c) ==
  LET e == Logged(m, "switch")
  IN  CASE m.prog_state = INIT -> CaseInit(e, c)
        [] m.prog_state = BEEP_1 -> CaseBeep1(e, c)
        [] m.prog_state = BEEP_2 -> CaseBeep2(e, c)
        [] m.prog_state = BEEP_3 -> CaseBeep3(e, c)
        [] m.prog_state = BEEP_INDEF -> CaseBeepIndef(e, c)

\* tempSens.requestTemperatures(); tempC = tempSens.getTempCByIndex(0)
ReadSensor(m, reading) ==
  [Logged(m, "getTempCByIndex") EXCEPT !.tempC = reading]

\* the renderer's early return on a glitch leaving loop() as well
LoopBodyReturningOnGlitch(m, reading, c) ==
  LET shown == ShowTemperature(ReadSensor([m EXCEPT !.log = <<>>], reading))
  IN  IF IsGlitch(reading) THEN shown ELSE SwitchProgState(shown, c)

\* the state machine stepped before the temperature is shown
LoopBodySwitchFirst(m, reading, c) ==
  ShowTemperature(SwitchProgState(ReadSensor([m EXCEPT !.log = <<>>], reading),
                                  c))

\* one cycle of loop(), the sensor delivering `reading` and millis() reading
\* c when the switch samples it
LoopBody(m, reading, c) ==
  SwitchProgState(ShowTemperature(ReadSensor([m EXCEPT !.log = <<>>], reading)),
                  c)

(***************************************************************************)
(* Actions                                                                 *)
(***************************************************************************)
Init ==
  /\ pc = "setup"
  /\ prog_state = INIT
  /\ timeHeatingStarted = 0
  /\ tempC = TEMP_INITIAL
  /\ disp = DispNew
  /\ screen = {}
  /\ buzzer = LOW
  /\ now = [s |-> 0, ms |-> 0]
  /\ log = <<>>
  /\ pulses = 0
  /\ serial = <<>>

Store(m) ==
  /\ prog_state' = m.prog_state
  /\ timeHeatingStarted' = m.timeHeatingStarted
  /\ tempC' = m.tempC
  /\ disp' = m.disp
  /\ screen' = m.screen
  /\ buzzer' = m.buzzer

\* the failure reported and setup() carried on: the endless loop left out
SetupCarryingOn(ok) ==
  /\ pc = "setup"
  /\ Store([ResetDisplay(Begin(Machine)) EXCEPT !.prog_state = INIT])
  /\ pc' = "loop"
  /\ serial' = IF ok THEN serial
                ELSE Append(serial, "SSD1306 allocation failed")
  /\ UNCHANGED <<now, log, pulses>>

\* setup(): reports on the serial line and halts for ever when the display
\* cannot be initialised
SetupWith(ok) ==
  /\ pc = "setup"
  /\ IF ok
     THEN /\ Store([ResetDisplay(Begin(Machine)) EXCEPT !.prog_state = INIT])
          /\ pc' = "loop"
          /\ UNCHANGED serial
     ELSE /\ pc' = "halted"
          /\ serial' = Append(serial, "SSD1306 allocation failed")
          /\ UNCHANGED <<prog_state, timeHeatingStarted, tempC, disp, screen,
                         buzzer>>
  /\ UNCHANGED <<now, log, pulses>>

Setup == \E ok \in BOOLEAN : SetupWith(ok)

LoopAt(reading, c) ==
  /\ pc = "loop"
  /\ pulses < MaxPulses
  /\ LET m == LoopBody(Machine, reading, c)
     IN  /\ Store(m)
         /\ log' = m.log
         /\ pulses' = pulses + PulsesIn(m.log)
  /\ now' = c
  /\ UNCHANGED <<pc, serial>>

Loop ==
  \E reading \in Readings, c \in ClockNext(now, PulsesIn(log) > 0) :
    LoopAt(reading, c)

Next == Setup \/ Loop

Spec == Init /\ [][Next]_vars

TypeOK ==
  /\ pc \in {"setup", "loop", "halted"}
  /\ prog_state \in INIT..BEEP_INDEF
  /\ buzzer \in {LOW, HIGH}
  /\ tempC \in Readings \cup {TEMP_INITIAL}
  /\ pulses \in 0..MaxPulses

(***************************************************************************)
(* A session started at t = 0 with valid readings and one cycle in every   *)
(* whole second                                                            *)
(***************************************************************************)
LoopEverySecond ==
  \E reading \in {r \in Readings : ~IsFault(r) /\ ~IsGlitch(r)} :
    LoopAt(reading, IF log = <<>> THEN now ELSE Advance(now, 1000))

NextEverySecond == SetupWith(TRUE) \/ LoopEverySecond

SpecEverySecond == Init /\ [][NextEverySecond]_vars

(***************************************************************************)
(* Properties                                                              *)
(***************************************************************************)
\* a step that is one cycle of loop()
Cycle == pc = "loop" /\ pc' = "loop"

\* a cycle of loop() has run
Cycled == pc = "loop" /\ log # <<>>

\* the elapsed whole seconds of the latest cycle are at most t
ElapsedAtMost(t) == ~Gt32(Elapsed(now, timeHeatingStarted), t)

\* the threshold the stage st waits for
Threshold(st) ==
  CASE st = BEEP_1 -> T_BEEP_1 [] st = BEEP_2 -> T_BEEP_2 [] st = BEEP_3 -> T_BEEP_3

\* C1: the alert stage never decreases: after every cycle of loop() prog_state
\* is greater than or equal to its value before the cycle, in the order
\* INIT < BEEP_1 < BEEP_2 < BEEP_3 < BEEP_INDEF, whatever the clock and the
\* reading
C1_StageNeverDecreases == [][prog_state' >= prog_state]_vars

\* the continuous alert is still on after the counter has wrapped and reads
\* less than a minute past the recorded start
C1_Witness ==
  /\ Cycled
  /\ prog_state = BEEP_INDEF
  /\ now.s >= timeHeatingStarted
  /\ now.s - timeHeatingStarted <= T_BEEP_1

\* C2 as stated: in every cycle in which millis()/1000 - timeHeatingStarted is
\* at most 60, beepOnce() is not called
C2_NoPulseUpToT1 == (Cycled /\ ElapsedAtMost(T_BEEP_1)) => PulsesIn(log) = 0

\* C2 amended: in every cycle that starts in a stage other than BEEP_INDEF and
\* in which millis()/1000 - timeHeatingStarted is at most 60, beepOnce() is
\* not called; this includes the INIT cycle
C2_NoPulseUpToT1BeforeIndef ==
  [][(pc = "loop" /\ prog_state # BEEP_INDEF
        /\ ~Gt32(Elapsed(now', timeHeatingStarted'), T_BEEP_1))
      => PulsesIn(log') = 0]_vars

\* a cycle at exactly 60 elapsed seconds that stayed silent in BEEP_1
C2_Witness ==
  /\ Cycled
  /\ prog_state = BEEP_1
  /\ Eq32(Elapsed(now, timeHeatingStarted), T_BEEP_1)
  /\ PulsesIn(log) = 0

\* C3: a cycle that advances BEEP_1, BEEP_2 or BEEP_3 to the next stage calls
\* beepOnce() exactly once, a cycle that starts before BEEP_INDEF and makes
\* none of these transitions calls it zero times, and the total when
\* BEEP_INDEF is first entered is 3
C3_OnePulsePerTransition ==
  [][Cycle /\ prog_state # BEEP_INDEF =>
       /\ (prog_state \in {BEEP_1, BEEP_2, BEEP_3}
             /\ prog_state' = prog_state + 1) => PulsesIn(log') = 1
       /\ ~(prog_state \in {BEEP_1, BEEP_2, BEEP_3}
             /\ prog_state' = prog_state + 1) => PulsesIn(log') = 0
       /\ prog_state' = BEEP_INDEF => pulses' = 3]_vars

\* BEEP_INDEF has just been entered with the third pulse
C3_Witness ==
  Cycled /\ prog_state = BEEP_INDEF /\ pulses = 3 /\ PulsesIn(log) = 1

\* C4: a cycle that starts in BEEP_1, BEEP_2 or BEEP_3 leaves the stage if and
\* only if the elapsed whole seconds it samples are strictly greater than the
\* stage's threshold; at exactly the threshold the stage stays and no pulse
\* is emitted
C4_StrictThreshold ==
  [][Cycle /\ prog_state \in {BEEP_1, BEEP_2, BEEP_3} =>
       LET e == Elapsed(now', timeHeatingStarted)
       IN  /\ prog_state' # prog_state <=> Gt32(e, Threshold(prog_state))
           /\ Eq32(e, Threshold(prog_state)) =>
                prog_state' = prog_state /\ PulsesIn(log') = 0]_vars

\* a cycle at exactly 120 elapsed seconds that stayed in BEEP_2
C4_Witness ==
  /\ Cycled
  /\ prog_state = BEEP_2
  /\ now.s = timeHeatingStarted + T_BEEP_2
  /\ PulsesIn(log) = 0

\* C5: once prog_state is BEEP_INDEF it is BEEP_INDEF after every later
\* cycle, and no cycle after the INIT cycle sets prog_state back to INIT
C5_TerminalStaysTerminal ==
  [][/\ prog_state = BEEP_INDEF => prog_state' = BEEP_INDEF
     /\ prog_state # INIT => prog_state' # INIT]_vars

\* the continuous alert has held through five cycles and a sensor fault
C5_Witness ==
  /\ Cycled
  /\ prog_state = BEEP_INDEF
  /\ pulses = MaxPulses
  /\ IsFault(tempC)

\* C6: every cycle of loop() that starts with prog_state = BEEP_INDEF calls
\* beepOnce() exactly once, whatever the clock and the reading
C6_PulseEveryTerminalCycle ==
  [][Cycle /\ prog_state = BEEP_INDEF => PulsesIn(log') = 1]_vars

\* five cycles of the continuous alert, the last with a glitch reading
C6_Witness ==
  /\ Cycled
  /\ prog_state = BEEP_INDEF
  /\ pulses = MaxPulses
  /\ IsGlitch(tempC)
  /\ PulsesIn(log) = 1

\* C7: in a session started at t = 0 with valid readings and a cycle in every
\* whole second, a pulse is emitted in the cycles at 61 s, 121 s and 181 s and
\* in every cycle after 181 s, and in no other cycle
C7_PulsesAt61_121_181 ==
  Cycled =>
    /\ timeHeatingStarted = 0
    /\ PulsesIn(log) =
         IF now.s \in {61, 121, 181} \/ now.s > 181 THEN 1 ELSE 0
    /\ pulses = IF now.s < 61 THEN 0
                ELSE IF now.s < 121 THEN 1
                ELSE IF now.s < 181 THEN 2
                ELSE now.s - 178

\* the cycle at 183 s, the second one after the third pulse
C7_Witness == Cycled /\ now.s = 183 /\ pulses = 5 /\ PulsesIn(log) = 1

\* the alert state machine's part of a machine state, with the pulses of the
\* cycle that produced it
AlertPart(m) == <<m.prog_state, m.timeHeatingStarted, PulsesIn(m.log)>>

\* a machine in the same alert stage that has seen no reading and drawn nothing
Blind(m) ==
  [m EXCEPT !.tempC = TEMP_INITIAL, !.disp = DispNew, !.screen = {},
            !.log = <<>>]

\* C8: the alert state machine does not depend on the readings.  From every
\* reachable state and for every next clock value, a cycle with any reading
\* leaves prog_state, timeHeatingStarted and the pulses of the cycle as a
\* cycle of the machine that never saw a reading and is fed 50.0 leaves
\* them; two executions under the same clock values therefore agree on these
\* cycle after cycle, whatever their readings.
C8_ReadingsDoNotSteer ==
  pc = "loop" =>
    \A c \in ClockNext(now, PulsesIn(log) > 0), r \in Readings :
      AlertPart(LoopBody(Machine, r, c))
        = AlertPart(LoopBody(Blind(Machine), GLITCH_ABOVE, c))

\* the continuous alert reached although every reading was a glitch and
\* nothing was ever presented
C8_Witness ==
  Cycled /\ prog_state = BEEP_INDEF /\ screen = {} /\ IsGlitch(tempC)

\* the text lines of a picture
Texts(pic) == {it.str : it \in {i \in pic : i.k = "text"}}

\* the first position of a call in a cycle's log, 0 when it is absent
FirstCall(l, what) ==
  IF \E i \in 1..Len(l) : l[i] = what
  THEN CHOOSE i \in 1..Len(l) : l[i] = what /\ \A j \in 1..(i - 1) : l[j] # what
  ELSE 0

\* C9: in every cycle whose reading is the sentinel -127.0, showTemperature()
\* clears the buffer, draws "Error: Temperature" and "Sensor Disconnected"
\* and flushes, so that the panel presents these two lines and no other text
C9_FaultAlwaysShown ==
  (Cycled /\ tempC = DEVICE_DISCONNECTED) =>
    /\ Texts(screen) = {"Error: Temperature", "Sensor Disconnected"}
    /\ screen = disp.buf
    /\ 0 < FirstCall(log, "clearDisplay")
    /\ FirstCall(log, "clearDisplay") < FirstCall(log, "print")
    /\ FirstCall(log, "print") < FirstCall(log, "display")

\* the fault message presented during the continuous alert
C9_Witness ==
  /\ Cycled
  /\ tempC = DEVICE_DISCONNECTED
  /\ "Sensor Disconnected" \in Texts(screen)
  /\ prog_state = BEEP_INDEF

\* C10: in every cycle whose reading is greater than 50, the panel presents
\* after the cycle what it presented before it
C10_GlitchKeepsScreen ==
  [][(Cycle /\ tempC' > GLITCH_ABOVE /\ tempC' # DEVICE_DISCONNECTED)
       => screen' = screen]_vars

\* a glitch cycle after which the panel still presents a temperature while
\* the buffer has been cleared
C10_Witness ==
  /\ Cycled
  /\ tempC > GLITCH_ABOVE
  /\ Texts(screen) = {"50.0 C"}
  /\ disp.buf = {}

\* the display operations that draw into the buffer or present it
Drawing == {"print", "drawRect", "display"}

\* the calls of a cycle's log
Calls(l) == {l[i] : i \in 1..Len(l)}

\* the text lines of the fault message
FaultLines == {"Error: Temperature", "Sensor Disconnected"}

\* the latest reading is a glitch, a valid value
Glitched == tempC # DEVICE_DISCONNECTED /\ tempC > GLITCH_ABOVE
Valid == tempC # DEVICE_DISCONNECTED /\ tempC <= GLITCH_ABOVE

\* C11 as stated: in a cycle whose reading is a glitch none of clear,
\* setCursor, drawText, drawRect and present is invoked, and the buffer and
\* the panel are left as they were
C11_GlitchTouchesNothing ==
  [][(Cycle /\ Glitched') =>
       /\ Calls(log') \cap ({"clearDisplay", "setCursor"} \cup Drawing) = {}
       /\ disp'.buf = disp.buf
       /\ screen' = screen]_vars

\* C11 amended: in a cycle whose reading is a glitch showTemperature() invokes
\* clear and setCursor through resetDisplay() and none of drawText, drawRect
\* and present, so the buffer is left empty and the panel as it was
C11_GlitchClearsBufferOnly ==
  [][(Cycle /\ Glitched') =>
       /\ {"clearDisplay", "setCursor"} \subseteq Calls(log')
       /\ Calls(log') \cap Drawing = {}
       /\ disp'.buf = {}
       /\ screen' = screen]_vars

\* a glitch cycle after a fault: the panel presents the fault message, the
\* buffer is empty
C11_Witness ==
  /\ Cycled
  /\ Glitched
  /\ Texts(screen) = FaultLines
  /\ disp.buf = {}
  /\ "clearDisplay" \in Calls(log)

\* the rectangle drawn around the full display
Border ==
  [k |-> "rect", x |-> 0, y |-> 0, w |-> SCREEN_WIDTH, h |-> SCREEN_HEIGHT]

C13_HaltsOnDisplayFailure ==
  serial # <<>> =>
    /\ pc = "halted"
    /\ ~ENABLED Next
    /\ log = <<>>
    /\ prog_state = INIT
    /\ timeHeatingStarted = 0
    /\ pulses = 0
    /\ buzzer = LOW
    /\ disp.buf = {}
    /\ screen = {}

\* the device halted after the failure was reported
C13_Witness ==
  pc = "halted" /\ serial = <<"SSD1306 allocation failed">> /\ now.s = 0

\* C14: timeHeatingStarted is written only in the cycle that starts in INIT,
\* to the whole seconds of the clock sampled in it, with no pulse and
\* prog_state becoming BEEP_1; every later cycle leaves it unchanged and none
\* starts in INIT again
C14_StartSetOnce ==
  [][Cycle =>
       IF prog_state = INIT
       THEN /\ timeHeatingStarted' = now'.s
            /\ PulsesIn(log') = 0
            /\ prog_state' = BEEP_1
       ELSE /\ timeHeatingStarted' = timeHeatingStarted
            /\ prog_state' # INIT]_vars

\* the start recorded at 1 s is still held in the continuous alert after the
\* counter has wrapped to 0
C14_Witness ==
  /\ Cycled
  /\ prog_state = BEEP_INDEF
  /\ timeHeatingStarted = 1
  /\ now.s = 0

(***************************************************************************)
(* The sketch under the Arduino main program: setup() is run, then loop()  *)
(* is called again and again for ever, the clock advancing with each cycle *)
(***************************************************************************)
\* what every step of Loop is and no other step of Next: a cycle is run and
\* the clock moves on.  Fairness is stated on it, being the part of Loop
\* whose enabledness is decided without running the cycle.
LoopRuns ==
  /\ pc = "loop"
  /\ pulses < MaxPulses
  /\ now' \in ClockNext(now, PulsesIn(log) > 0)

SpecFair == Init /\ [][Next]_vars /\ WF_vars(Setup) /\ WF_now(LoopRuns)

\* C15: if display initialisation succeeds and cycles keep being executed
\* with the clock advancing, prog_state eventually equals BEEP_INDEF, for
\* every sequence of readings
C15_EventuallyContinuous == (pc = "loop") ~> (prog_state = BEEP_INDEF)

\* the continuous alert entered with the third pulse in a cycle whose reading
\* was the fault sentinel
C15_Witness ==
  /\ Cycled
  /\ prog_state = BEEP_INDEF
  /\ pulses = 3
  /\ IsFault(tempC)
  /\ timeHeatingStarted = 0

\* the calls that belong to the renderer
RendererCalls ==
  {"showTemperature", "clearDisplay", "setRotation", "setCursor",
   "setTextSize", "setTextColor"} \cup Drawing

\* the calls that belong to the state machine step
MachineCalls == {"millis", "beepOnce", "buzzer HIGH", "buzzer LOW"}

\* the number of times a call occurs in a cycle's log
Times(l, what) == Cardinality({i \in 1..Len(l) : l[i] = what})

\* C16: in every cycle, in every stage, the reading is taken once and passed
\* to showTemperature() once, and showTemperature() has completed before
\* prog_state is examined, before the clock is sampled and before any pulse
C16_RenderBeforeStateMachine ==
  Cycled =>
    /\ log[1] = "getTempCByIndex" /\ Times(log, "getTempCByIndex") = 1
    /\ log[2] = "showTemperature" /\ Times(log, "showTemperature") = 1
    /\ Times(log, "switch") = 1
    /\ \A i \in 1..Len(log) :
         /\ log[i] \in RendererCalls => i < FirstCall(log, "switch")
         /\ log[i] \in MachineCalls => i > FirstCall(log, "switch")

\* a cycle of the continuous alert in which a valid reading was presented
\* and then the pulse emitted
C16_Witness ==
  /\ Cycled
  /\ prog_state = BEEP_INDEF
  /\ pulses = 5
  /\ Valid
  /\ FirstCall(log, "display") > 0
  /\ FirstCall(log, "display") < FirstCall(log, "beepOnce")

\* C17: while the counter has not wrapped, a cycle that leaves BEEP_1, BEEP_2
\* or BEEP_3 samples the clock more than 60000, 120000 or 180000 ms after
\* the instant at which the start was recorded, whatever the milliseconds
\* sms of that instant that the division by 1000 dropped
C17_NotBeforeThresholdElapsed ==
  [][(/\ Cycle
      /\ prog_state \in {BEEP_1, BEEP_2, BEEP_3}
      /\ prog_state' # prog_state
      /\ now'.s >= timeHeatingStarted) =>
       \A sms \in 0..999 :
         LET ds == now'.s - timeHeatingStarted
         IN  \/ ds > 1000
             \/ ds * 1000 + now'.ms - sms > Threshold(prog_state) * 1000]_vars

\* BEEP_1 left by the cycle at 61.000 s of a session started at 0.500 s
C17_Witness ==
  /\ Cycled
  /\ prog_state = BEEP_2
  /\ PulsesIn(log) = 1
  /\ timeHeatingStarted = 0
  /\ now = [s |-> 61, ms |-> 0]

\* C18: a reading is a SensorFault iff it is -127.0, else a Glitch iff it is
\* greater than 50, else Valid: the fault message is presented for the
\* first, nothing is drawn or presented for the second, the formatted value
\* is drawn and presented for the third; exactly 50 and negative values are
\* Valid
C18_ThreeCategories ==
  Cycled =>
    /\ tempC = DEVICE_DISCONNECTED => Texts(screen) = FaultLines
    /\ Glitched => Calls(log) \cap Drawing = {}
    /\ Valid => /\ Drawing \subseteq Calls(log)
                /\ Texts(screen) = {TempText(tempC)}
    /\ tempC = 5000 => Texts(screen) = {"50.0 C"}
    /\ tempC = -2347 => Texts(screen) = {"-23.5 C"}

\* a reading of exactly 50 drawn and presented
C18_Witness ==
  /\ Cycled
  /\ tempC = GLITCH_ABOVE
  /\ Texts(screen) = {"50.0 C"}
  /\ Drawing \subseteq Calls(log)

\* C19: a cycle advances prog_state by at most one stage and emits at most
\* one pulse; a cycle that starts in BEEP_1, BEEP_2 or BEEP_3 and samples an
\* elapsed time beyond all three thresholds enters the next stage only, with
\* one pulse
C19_OneStagePerCycle ==
  [][Cycle =>
       /\ prog_state' \in {prog_state, prog_state + 1}
       /\ PulsesIn(log') <= 1
       /\ (prog_state \in {BEEP_1, BEEP_2, BEEP_3}
             /\ Gt32(Elapsed(now', timeHeatingStarted), T_BEEP_3)) =>
            prog_state' = prog_state + 1 /\ PulsesIn(log') = 1]_vars

\* BEEP_2 entered with the first pulse by a cycle whose elapsed time was
\* already past 180 s
C19_Witness ==
  /\ Cycled
  /\ prog_state = BEEP_2
  /\ pulses = 1
  /\ PulsesIn(log) = 1
  /\ Gt32(Elapsed(now, timeHeatingStarted), T_BEEP_3)

\* C20: the buzzer pin is LOW before and after every cycle; every call of
\* beepOnce() drives it HIGH and then LOW, and it is driven HIGH nowhere else
C20_BuzzerNeverLeftHigh ==
  /\ buzzer = LOW
  /\ \A i \in 1..Len(log) :
       /\ log[i] = "beepOnce" =>
            /\ i + 2 <= Len(log)
            /\ log[i + 1] = "buzzer HIGH"
            /\ log[i + 2] = "buzzer LOW"
       /\ log[i] = "buzzer HIGH" => i > 1 /\ log[i - 1] = "beepOnce"

\* the pin back LOW after the first pulse of the continuous alert
C20_Witness ==
  /\ Cycled
  /\ prog_state = BEEP_INDEF
  /\ pulses = 4
  /\ buzzer = LOW
  /\ "buzzer HIGH" \in Calls(log)

====
